---- MODULE Spec2Model ----
(***************************************************************************)
(* Model of src/tools/basetool.py: the two tools execute_code (Run Source) *)
(* and execute_command (Run Command), the file they write, the child       *)
(* process they wait for and the value they return.                        *)
(*                                                                         *)
(* Strings are sequences of tokens and paths are sequences of segments (an *)
(* absolute path starts with the segment "/").  Two calls may be in flight *)
(* at once; each statement of a call that touches the file system or the   *)
(* child process is one step, and the logger calls next to it belong to    *)
(* the same step.                                                          *)
(***************************************************************************)
EXTENDS Integers, Sequences, FiniteSets, TLC

\* ------------------------------------------------------------------ bounds
\* Longest input_code, in tokens.
MaxCodeLen == 2

\* ------------------------------------------------------- inputs and values
\* The calls that may be in flight together.
Calls == {"A", "B"}

\* from load_cfg import WORKING_DIRECTORY
WORKING_DIRECTORY == <<"/", "data_storage">>

Letters == <<"a", "b", "c", "d">>

\* input_code: one text of every length 1..MaxCodeLen.
Texts == { [i \in 1..n |-> Letters[n]] : n \in 1..MaxCodeLen }

\* codefile_name: the default file name, a full path with redundant "." and
\* ".." segments, and a value that is no string at all.
DefaultName == [str |-> TRUE, segs |-> <<"code.py">>]
AbsName == [str |-> TRUE, segs |-> <<"/", "tmp", ".", "..", "x.py">>]
NotAStr == [str |-> FALSE, segs |-> <<>>]
CodefileNames == {DefaultName, AbsName, NotAStr}

Commands == {<<"echo hello">>, <<"exit 3">>}

\* What a child process can be observed to end with: exit 0, a non-zero exit
\* of the program with output on both streams, and the shell's own exit 127
\* when it cannot find the program it was asked to start (ran = FALSE).
ExitOk == [state |-> "exited", rc |-> 0, out |-> <<"2", "\n">>, err |-> <<>>, ran |-> TRUE]
ExitFail == [state |-> "exited", rc |-> 1, out |-> <<"partial">>, err |-> <<"ValueError">>, ran |-> TRUE]
ExitNotFound == [state |-> "exited", rc |-> 127, out |-> <<>>, err |-> <<"not found">>, ran |-> FALSE]
ChildOutcomes == {ExitOk, ExitFail, ExitNotFound}
NoProc == [state |-> "none", rc |-> 0, out |-> <<>>, err |-> <<>>, ran |-> FALSE]
Running == [state |-> "running", rc |-> 0, out |-> <<>>, err |-> <<>>, ran |-> FALSE]

\* A logger call returns, or raises.
LogOutcomes == {"ok", "raise"}

NoPath == <<>>
Unknown == <<"Unknown">>
NoDict == [result |-> "none"]
NoStr == <<"<no value>">>
ClosedFile == [open |-> FALSE, pending |-> <<>>]

\* ------------------------------------------------------------ path helpers
\* os.path.isabs
IsAbs(segs) == Len(segs) > 0 /\ segs[1] = "/"

\* os.path.join(WORKING_DIRECTORY, codefile_name)
Join(dir, segs) == IF IsAbs(segs) THEN segs ELSE dir \o segs

RECURSIVE NormStack(_, _)
NormStack(stack, rest) ==
    IF rest = <<>> THEN stack
    ELSE LET s == Head(rest)
             n == Len(stack)
         IN  IF s = "." THEN NormStack(stack, Tail(rest))
             ELSE IF s = ".."
                  THEN IF n > 0 /\ stack[n] \notin {"/", ".."}
                       THEN NormStack(SubSeq(stack, 1, n - 1), Tail(rest))
                       ELSE IF n > 0 /\ stack[n] = "/"
                            THEN NormStack(stack, Tail(rest))
                            ELSE NormStack(Append(stack, s), Tail(rest))
                  ELSE NormStack(Append(stack, s), Tail(rest))

\* os.path.normpath
NormPath(segs) == NormStack(<<>>, segs)

\* Lines 40-46: the path the code is written to.
ResolvePath(name) ==
    NormPath(IF IsAbs(name.segs) THEN name.segs ELSE Join(WORKING_DIRECTORY, name.segs))

Paths == { ResolvePath(n) : n \in {m \in CodefileNames : m.str} }

InWorkingDirectory(path) ==
    /\ Len(path) > Len(WORKING_DIRECTORY)
    /\ SubSeq(path, 1, Len(WORKING_DIRECTORY)) = WORKING_DIRECTORY

\* ------------------------------------------------------------------- state
VARIABLES
    wdExists,        \* the working directory exists on disk
    files,           \* path -> content of the file there
    fsClock,         \* history: number of opens, flushes and removals so far
    openedAt,        \* history: call -> fsClock of its open, 0 if none
    flushedAt,       \* history: call -> fsClock of its flush, 0 if none
    disturbedAt,     \* history: path -> fsClock of its last open or removal
    pc,              \* call -> where it is
    op,              \* call -> "code" | "command" | "none"
    input_code,      \* call -> argument of execute_code
    codefile_name,   \* call -> argument of execute_code
    command,         \* call -> argument of execute_command
    code_file_path,  \* call -> local of execute_code, NoPath while unassigned
    code_file,       \* call -> the file object of the with block
    result,          \* call -> the child process of subprocess.run
    ret,             \* call -> the mapping execute_code returned
    retstr,          \* call -> the string execute_command returned
    logFailed,       \* history: a logger call of this call raised
    faultAt,         \* history: the step whose fault was caught or propagated
    launches,        \* history: child processes this call started
    steps,           \* history: the steps this call completed, in order
    wdAtCall         \* history: wdExists when the call began

vars == <<wdExists, files, fsClock, openedAt, flushedAt, disturbedAt, pc, op, input_code, codefile_name, command,
          code_file_path, code_file, result, ret, retstr, logFailed, faultAt,
          launches, steps, wdAtCall>>

fsHistVars == <<fsClock, openedAt, flushedAt, disturbedAt>>
fsVars == <<wdExists, files, fsHistVars>>
argVars == <<op, input_code, codefile_name, command, wdAtCall>>

\* Lines 12-15: after import the working directory exists.
Init ==
    /\ wdExists = TRUE
    /\ files = [p \in Paths |-> <<>>]
    /\ fsClock = 0
    /\ openedAt = [c \in Calls |-> 0]
    /\ flushedAt = [c \in Calls |-> 0]
    /\ disturbedAt = [p \in Paths |-> 0]
    /\ pc = [c \in Calls |-> "idle"]
    /\ op = [c \in Calls |-> "none"]
    /\ input_code = [c \in Calls |-> <<>>]
    /\ codefile_name = [c \in Calls |-> DefaultName]
    /\ command = [c \in Calls |-> <<>>]
    /\ code_file_path = [c \in Calls |-> NoPath]
    /\ code_file = [c \in Calls |-> ClosedFile]
    /\ result = [c \in Calls |-> NoProc]
    /\ ret = [c \in Calls |-> NoDict]
    /\ retstr = [c \in Calls |-> NoStr]
    /\ logFailed = [c \in Calls |-> FALSE]
    /\ faultAt = [c \in Calls |-> "none"]
    /\ launches = [c \in Calls |-> 0]
    /\ steps = [c \in Calls |-> <<>>]
    /\ wdAtCall = [c \in Calls |-> TRUE]


\* ---------------------------------------------------- pieces of the tools
\* Line 76: the suffix appended to the captured stdout on success.
CompletionHint == <<"\n\nIf you have completed all tasks, respond with FINAL ANSWER.">>

\* Variant of MakedirsOutcomes: os.makedirs without exist_ok=True raises when
\* the directory is already there.
MakedirsNotExistOk(exists) ==
    IF exists
    THEN {[ok |-> FALSE, exists |-> TRUE, err |-> <<"FileExistsError">>]}
    ELSE {[ok |-> TRUE, exists |-> TRUE, err |-> <<>>],
          [ok |-> FALSE, exists |-> FALSE, err |-> <<"PermissionError">>]}

\* Line 37: os.makedirs(WORKING_DIRECTORY, exist_ok=True).  With the
\* directory there it does nothing; without it, it creates it or fails.
MakedirsOutcomes(exists) ==
    IF exists
    THEN {[ok |-> TRUE, exists |-> TRUE, err |-> <<>>]}
    ELSE {[ok |-> TRUE, exists |-> TRUE, err |-> <<>>],
          [ok |-> FALSE, exists |-> FALSE, err |-> <<"PermissionError">>]}

\* Line 51: open(code_file_path, 'w') empties the file.
Truncate(data) == <<>>

\* Line 52: code_file.write(input_code) leaves the text in the file object's
\* buffer.
Buffer(pending, text) == pending \o text

\* Variant of Flush: a file opened in append mode writes at the end.
FlushAppend(data, pending) == data \o pending

\* End of the with block: the buffer is written at the file object's own
\* offset 0, over whatever the file holds by then.
Flush(data, pending) ==
    pending \o SubSeq(data, Len(pending) + 1, Len(data))

\* Variant of WithExit: open() without a with block, never closed.
WithExitLeak(f) == f

\* Lines 51-52: leaving the with block, normally or by an exception, closes
\* the file object.
WithExit(f) == [open |-> FALSE, pending |-> <<>>]

\* Variant of CodeResult: the test of the return code inverted.
CodeResultInverted(p, path) ==
    IF p.rc # 0
    THEN [result |-> "Code executed successfully",
          output |-> p.out \o CompletionHint,
          file_path |-> path]
    ELSE [result |-> "Failed to execute",
          error |-> p.err,
          file_path |-> path]

\* Lines 72-85: the value returned once the child has exited.
CodeResult(p, path) ==
    IF p.rc = 0
    THEN [result |-> "Code executed successfully",
          output |-> p.out \o CompletionHint,
          file_path |-> path]
    ELSE [result |-> "Failed to execute",
          error |-> p.err,
          file_path |-> path]

\* Variant of ErrorResult: the except clause never reports the path.
ErrorResultNoPath(e, path) ==
    [result |-> "Error occurred", error |-> e, file_path |-> Unknown]

\* Lines 88-92: the value returned by the except clause.
ErrorResult(e, path) ==
    [result |-> "Error occurred",
     error |-> e,
     file_path |-> IF path # NoPath THEN path ELSE Unknown]

\* Variant of CommandResult: the error string keeps the captured stdout.
CommandResultKeepsStdout(p) ==
    IF p.rc = 0 THEN p.out ELSE <<"Error: ">> \o p.out \o p.err

\* Lines 124 and 127: the string execute_command returns.
CommandResult(p) ==
    IF p.rc = 0 THEN p.out ELSE <<"Error: ">> \o p.err

LogSites == {"log48", "log54", "log58", "log73", "log80", "log87", "log110", "log123", "log126"}

Finished(c) == pc[c] \in {"returned", "raised"}

\* Lines 86-92: an exception raised at `site` inside the try block of
\* execute_code is caught; logger.exception is called and the error mapping
\* returned.  If logger.exception itself raises, nothing catches it.
Caught(c, e, site, path) ==
    /\ faultAt' = [faultAt EXCEPT ![c] = site]
    /\ \E lg \in LogOutcomes :
        /\ logFailed' = [logFailed EXCEPT ![c] = (site \in LogSites) \/ lg = "raise"]
        /\ IF lg = "ok"
           THEN /\ pc' = [pc EXCEPT ![c] = "returned"]
                /\ ret' = [ret EXCEPT ![c] = ErrorResult(e, path)]
           ELSE /\ pc' = [pc EXCEPT ![c] = "raised"]
                /\ ret' = ret

\* An exception raised at `site` in execute_command that is no
\* CalledProcessError: line 125 does not catch it.
Propagated(c, site) ==
    /\ faultAt' = [faultAt EXCEPT ![c] = site]
    /\ logFailed' = [logFailed EXCEPT ![c] = site \in LogSites]
    /\ pc' = [pc EXCEPT ![c] = "raised"]

\* The step completed normally.
Proceed(c, next, step) ==
    /\ pc' = [pc EXCEPT ![c] = next]
    /\ steps' = [steps EXCEPT ![c] = Append(@, step)]
    /\ UNCHANGED <<ret, faultAt, logFailed>>

\* ------------------------------------------------------------ execute_code
\* The tool is called.
CallExecuteCode(c) ==
    /\ pc[c] = "idle"
    /\ \E text \in Texts, name \in CodefileNames :
        /\ input_code' = [input_code EXCEPT ![c] = text]
        /\ codefile_name' = [codefile_name EXCEPT ![c] = name]
    /\ op' = [op EXCEPT ![c] = "code"]
    /\ wdAtCall' = [wdAtCall EXCEPT ![c] = wdExists]
    /\ pc' = [pc EXCEPT ![c] = "makedirs"]
    /\ UNCHANGED <<fsVars, command, code_file_path, code_file, result, ret, retstr,
                   logFailed, faultAt, launches, steps>>

\* Line 37.
Makedirs(c) ==
    /\ pc[c] = "makedirs"
    /\ \E o \in MakedirsOutcomes(wdExists) :
        IF o.ok
        THEN /\ wdExists' = o.exists
             /\ Proceed(c, "resolve", "makedirs")
        ELSE /\ wdExists' = wdExists
             /\ Caught(c, o.err, "makedirs", code_file_path[c])
             /\ steps' = steps
    /\ UNCHANGED <<files, fsHistVars, argVars, code_file_path, code_file, result, retstr,
                   launches>>

\* Lines 40-48: the path is resolved and logged.
Resolve(c) ==
    /\ pc[c] = "resolve"
    /\ IF ~codefile_name[c].str
       THEN /\ Caught(c, <<"TypeError">>, "resolve", code_file_path[c])
            /\ UNCHANGED <<code_file_path, steps>>
       ELSE /\ code_file_path' = [code_file_path EXCEPT ![c] = ResolvePath(codefile_name[c])]
            /\ \E lg \in LogOutcomes :
                IF lg = "ok"
                THEN Proceed(c, "open", "resolve")
                ELSE /\ Caught(c, <<"LogError">>, "log48", code_file_path'[c])
                     /\ steps' = steps
    /\ UNCHANGED <<fsVars, argVars, code_file, result, retstr, launches>>

\* Line 51: the file is opened for writing.
OpenFile(c) ==
    /\ pc[c] = "open"
    /\ LET path == code_file_path[c] IN
        \/ /\ InWorkingDirectory(path) => wdExists
           /\ files' = [files EXCEPT ![path] = Truncate(@)]
           /\ fsClock' = fsClock + 1
           /\ openedAt' = [openedAt EXCEPT ![c] = fsClock']
           /\ disturbedAt' = [disturbedAt EXCEPT ![path] = fsClock']
           /\ flushedAt' = flushedAt
           /\ code_file' = [code_file EXCEPT ![c] = [open |-> TRUE, pending |-> <<>>]]
           /\ Proceed(c, "write", "open")
        \/ /\ \E e \in (IF InWorkingDirectory(path) /\ ~wdExists
                        THEN {<<"FileNotFoundError">>}
                        ELSE {<<"PermissionError">>}) :
                Caught(c, e, "open", path)
           /\ UNCHANGED <<files, fsHistVars, code_file, steps>>
    /\ UNCHANGED <<wdExists, argVars, code_file_path, result, retstr, launches>>

\* Line 52: the text is written, or cannot be encoded; in that case the with
\* block closes the file on the way out.
WriteFile(c) ==
    /\ pc[c] = "write"
    /\ \/ /\ code_file' = [code_file EXCEPT ![c].pending = Buffer(@, input_code[c])]
          /\ Proceed(c, "close", "write")
       \/ /\ code_file' = [code_file EXCEPT ![c] = WithExit(@)]
          /\ Caught(c, <<"UnicodeEncodeError">>, "write", code_file_path[c])
          /\ steps' = steps
    /\ UNCHANGED <<fsVars, argVars, code_file_path, result, retstr, launches>>

\* Lines 52-58: the with block ends; the buffered text reaches the file, or
\* the flush fails; the file object is closed either way.  Then the two
\* logger calls.
CloseFile(c) ==
    /\ pc[c] = "close"
    /\ code_file' = [code_file EXCEPT ![c] = WithExit(@)]
    /\ LET path == code_file_path[c] IN
        \/ /\ files' = [files EXCEPT ![path] = Flush(@, code_file[c].pending)]
           /\ fsClock' = fsClock + 1
           /\ flushedAt' = [flushedAt EXCEPT ![c] = fsClock']
           /\ UNCHANGED <<openedAt, disturbedAt>>
           /\ \/ Proceed(c, "launch", "close")
              \/ /\ \E site \in {"log54", "log58"} : Caught(c, <<"LogError">>, site, path)
                 /\ steps' = [steps EXCEPT ![c] = Append(@, "close")]
        \/ /\ Caught(c, <<"OSError">>, "close", path)
           /\ UNCHANGED <<files, fsHistVars, steps>>
    /\ UNCHANGED <<wdExists, argVars, code_file_path, result, retstr, launches>>

\* Line 60: subprocess.run starts the shell in the working directory.
Launch(c) ==
    /\ pc[c] = "launch"
    /\ \/ /\ wdExists
          /\ result' = [result EXCEPT ![c] = Running]
          /\ launches' = [launches EXCEPT ![c] = @ + 1]
          /\ Proceed(c, "wait", "launch")
       \/ /\ \E e \in (IF wdExists THEN {<<"OSError">>} ELSE {<<"FileNotFoundError">>}) :
                Caught(c, e, "launch", code_file_path[c])
          /\ UNCHANGED <<result, launches, steps>>
    /\ UNCHANGED <<fsVars, argVars, code_file_path, code_file, retstr>>

\* Lines 60-85: the child exits, subprocess.run returns and the result is
\* reduced; or its output cannot be decoded as text.
ChildExit(c) ==
    /\ pc[c] = "wait"
    /\ \/ \E o \in ChildOutcomes :
            /\ result' = [result EXCEPT ![c] = o]
            /\ \E lg \in LogOutcomes :
                IF lg = "ok"
                THEN /\ pc' = [pc EXCEPT ![c] = "returned"]
                     /\ ret' = [ret EXCEPT ![c] = CodeResult(o, code_file_path[c])]
                     /\ steps' = [steps EXCEPT ![c] = Append(@, "exit")]
                     /\ UNCHANGED <<faultAt, logFailed>>
                ELSE /\ Caught(c, <<"LogError">>, IF o.rc = 0 THEN "log73" ELSE "log80",
                               code_file_path[c])
                     /\ steps' = [steps EXCEPT ![c] = Append(@, "exit")]
       \/ /\ result' = [result EXCEPT ![c].state = "undecoded"]
          /\ Caught(c, <<"UnicodeDecodeError">>, "decode", code_file_path[c])
          /\ steps' = steps
    /\ UNCHANGED <<fsVars, argVars, code_file_path, code_file, retstr, launches>>


\* --------------------------------------------------------- execute_command
\* The tool is called.
CallExecuteCommand(c) ==
    /\ pc[c] = "idle"
    /\ \E cmd \in Commands : command' = [command EXCEPT ![c] = cmd]
    /\ op' = [op EXCEPT ![c] = "command"]
    /\ wdAtCall' = [wdAtCall EXCEPT ![c] = wdExists]
    /\ pc' = [pc EXCEPT ![c] = "cmd_launch"]
    /\ UNCHANGED <<fsVars, input_code, codefile_name, code_file_path, code_file, result,
                   ret, retstr, logFailed, faultAt, launches, steps>>

\* Lines 110-113: the logger call, then subprocess.run starts the shell in
\* the working directory.
CommandLaunch(c) ==
    /\ pc[c] = "cmd_launch"
    /\ \/ /\ wdExists
          /\ result' = [result EXCEPT ![c] = Running]
          /\ launches' = [launches EXCEPT ![c] = @ + 1]
          /\ Proceed(c, "cmd_wait", "launch")
       \/ /\ \E site \in {"log110", "launch"} : Propagated(c, site)
          /\ UNCHANGED <<result, launches, steps, ret>>
    /\ UNCHANGED <<fsVars, argVars, code_file_path, code_file, retstr>>

\* Lines 113-127: the child exits.  Exit 0: subprocess.run returns, the
\* logger is called and stdout returned.  Any other exit: check=True raises
\* CalledProcessError, the logger is called and the error string returned.
\* Output that cannot be decoded raises out of subprocess.run.
CommandExit(c) ==
    /\ pc[c] = "cmd_wait"
    /\ \/ \E o \in ChildOutcomes :
            /\ result' = [result EXCEPT ![c] = o]
            /\ steps' = [steps EXCEPT ![c] = Append(@, "exit")]
            /\ \/ /\ pc' = [pc EXCEPT ![c] = "returned"]
                  /\ retstr' = [retstr EXCEPT ![c] = CommandResult(o)]
                  /\ UNCHANGED <<faultAt, logFailed>>
               \/ /\ Propagated(c, IF o.rc = 0 THEN "log123" ELSE "log126")
                  /\ retstr' = retstr
       \/ /\ result' = [result EXCEPT ![c].state = "undecoded"]
          /\ Propagated(c, "decode")
          /\ UNCHANGED <<retstr, steps>>
    /\ UNCHANGED <<fsVars, argVars, code_file_path, code_file, ret, launches>>

\* ------------------------------------------------------------- environment
\* Between calls somebody removes the working directory and what is in it.
RemoveWorkingDirectory ==
    /\ wdExists
    /\ \A c \in Calls : pc[c] = "idle" \/ Finished(c)
    /\ wdExists' = FALSE
    /\ files' = [p \in Paths |-> IF InWorkingDirectory(p) THEN <<>> ELSE files[p]]
    /\ fsClock' = fsClock + 1
    /\ disturbedAt' = [p \in Paths |-> IF InWorkingDirectory(p) THEN fsClock' ELSE disturbedAt[p]]
    /\ UNCHANGED <<openedAt, flushedAt>>
    /\ UNCHANGED <<pc, argVars, code_file_path, code_file, result, ret, retstr,
                   logFailed, faultAt, launches, steps>>

Next ==
    \/ \E c \in Calls : CallExecuteCode(c)
    \/ \E c \in Calls : Makedirs(c)
    \/ \E c \in Calls : Resolve(c)
    \/ \E c \in Calls : OpenFile(c)
    \/ \E c \in Calls : WriteFile(c)
    \/ \E c \in Calls : CloseFile(c)
    \/ \E c \in Calls : Launch(c)
    \/ \E c \in Calls : ChildExit(c)
    \/ \E c \in Calls : CallExecuteCommand(c)
    \/ \E c \in Calls : CommandLaunch(c)
    \/ \E c \in Calls : CommandExit(c)
    \/ RemoveWorkingDirectory

Spec == Init /\ [][Next]_vars


\* ------------------------------------------------------------------ claims
IsPrefix(s, t) == Len(s) <= Len(t) /\ SubSeq(t, 1, Len(s)) = s

IsCode(c) == op[c] = "code"
IsCommand(c) == op[c] = "command"
Returned(c) == pc[c] = "returned"
Observed(c) == result[c].state = "exited"
IsRelative(name) == name.str /\ ~IsAbs(name.segs)

\* Nobody opened `path`, or removed the directory it is in, after call c
\* wrote to it.
Undisturbed(c, path) == disturbedAt[path] < flushedAt[c]

\* C1: no fault of directory creation, file open or write, process launch or
\* any other unexpected fault leaves either tool as an exception; every call
\* ends by returning a value.  (A call left through a raising logger call is
\* the subject of C8 and is not counted here.)
C1_NoFaultPropagates ==
    \A c \in Calls : pc[c] = "raised" => logFailed[c]

\* C2: a Run Source call whose child was observed to exit returns the success
\* shape (stdout followed by the completion hint, no error key) on exit code
\* 0 and the execution_failed shape (error = stderr, no output key)
\* otherwise, with file_path the resolved path.
C2_ReducedByExitCode ==
    \A c \in Calls :
        (IsCode(c) /\ Returned(c) /\ Observed(c)) =>
            /\ ret[c].file_path = ResolvePath(codefile_name[c])
            /\ IF result[c].rc = 0
               THEN /\ ret[c].result = "Code executed successfully"
                    /\ DOMAIN ret[c] = {"result", "output", "file_path"}
                    /\ ret[c].output = result[c].out \o CompletionHint
               ELSE /\ ret[c].result = "Failed to execute"
                    /\ DOMAIN ret[c] = {"result", "error", "file_path"}
                    /\ ret[c].error = result[c].err

\* C3: the string Run Command returns is exactly the captured stdout when the
\* child exited 0, and exactly "Error: " followed by the captured stderr,
\* with nothing of the captured stdout in it, when it exited non-zero.
C3_CommandString ==
    \A c \in Calls :
        (IsCommand(c) /\ Returned(c)) =>
            /\ Observed(c)
            /\ IF result[c].rc = 0
               THEN retstr[c] = result[c].out
               ELSE /\ retstr[c] = <<"Error: ">> \o result[c].err
                    /\ \A i \in 1..Len(retstr[c]), j \in 1..Len(result[c].out) :
                          retstr[c][i] # result[c].out[j]

\* C3 witness: a command that wrote to stdout and exited non-zero returned.
C3_Witness ==
    \E c \in Calls :
        /\ IsCommand(c) /\ Returned(c)
        /\ result[c].rc # 0 /\ result[c].out # <<>>
        /\ retstr[c] = <<"Error: ", "ValueError">>


\* C4 as stated: the resolved path is known before the working directory is
\* created or anything is written, so a returned file_path is the "Unknown"
\* marker only when resolving the path is what failed.
C4_UnknownOnlyWhenResolveFailed ==
    \A c \in Calls :
        (IsCode(c) /\ Returned(c) /\ ret[c].file_path = Unknown) =>
            faultAt[c] = "resolve"

\* C4 amended: the working directory is created first and the path resolved
\* next, before the file is opened or a child started; a result produced by
\* a fault from the opening of the file on carries the resolved path, and
\* file_path is "Unknown" only when creating the directory or resolving the
\* path failed.
C4_PathBeforeFileWrite ==
    \A c \in Calls :
        IsCode(c) =>
            /\ (code_file[c].open \/ openedAt[c] > 0
                    \/ launches[c] > 0)
                => (codefile_name[c].str /\ code_file_path[c] = ResolvePath(codefile_name[c]))
            /\ (Returned(c) /\ faultAt[c] \notin {"none", "makedirs", "resolve"})
                => ret[c].file_path = ResolvePath(codefile_name[c])
            /\ (Returned(c) /\ ret[c].file_path = Unknown)
                => faultAt[c] \in {"makedirs", "resolve"}

\* C4 witness: one call returned "Unknown" because the directory could not
\* be created, another returned the resolved path after open() failed.
C4_Witness ==
    \E c, d \in Calls :
        /\ IsCode(c) /\ Returned(c) /\ faultAt[c] = "makedirs"
        /\ ret[c].file_path = Unknown
        /\ IsCode(d) /\ Returned(d) /\ faultAt[d] = "open"
        /\ ret[d].file_path = ResolvePath(codefile_name[d])

\* C5 as stated: a launch fault, the interpreter not being found among them,
\* is reported as internal_error and never as execution_failed, which is
\* produced only when the requested program started and exited non-zero.
C5_LaunchFaultIsInternalError ==
    \A c \in Calls :
        (IsCode(c) /\ Returned(c)) =>
            /\ (faultAt[c] = "launch" \/ (Observed(c) /\ ~result[c].ran))
                => ret[c].result = "Error occurred"
            /\ ret[c].result = "Failed to execute"
                => (Observed(c) /\ result[c].ran /\ result[c].rc # 0)

\* C5 amended: a fault starting the shell child is never reported as
\* execution_failed (a result returned after it is internal_error), and
\* execution_failed is produced only when the one child the call started was
\* observed to exit non-zero; that includes the shell's exit when it cannot
\* find the interpreter.
C5_ShellLaunchFaultIsInternalError ==
    \A c \in Calls :
        (IsCode(c) /\ Returned(c)) =>
            /\ faultAt[c] = "launch" => ret[c].result = "Error occurred"
            /\ ret[c].result = "Failed to execute"
                => (Observed(c) /\ result[c].rc # 0 /\ launches[c] = 1)

\* C5 witness: the interpreter was not found and the call reported
\* execution_failed, while another call's launch fault was reported as
\* internal_error.
C5_Witness ==
    \E c, d \in Calls :
        /\ IsCode(c) /\ Returned(c) /\ Observed(c) /\ ~result[c].ran
        /\ ret[c].result = "Failed to execute"
        /\ IsCode(d) /\ Returned(d) /\ faultAt[d] = "launch"
        /\ ret[d].result = "Error occurred"

\* C6: a Run Source call ends in exactly one of success, execution_failed and
\* internal_error, by returning exactly one result; it starts at most one
\* child, and returns only once that child has exited or failed to start.
C6_OneTerminalState ==
    \A c \in Calls :
        IsCode(c) =>
            /\ launches[c] <= 1
            /\ ~Finished(c) => ret[c] = NoDict
            /\ Finished(c) =>
                /\ Returned(c)
                /\ ret[c].result \in {"Code executed successfully", "Failed to execute",
                                      "Error occurred"}
                /\ result[c].state # "running"


\* C7: called with a relative name while the working directory is missing,
\* Run Source creates the directory before it opens the file, never fails
\* for want of that directory, and with no fault ends in success or
\* execution_failed by the child's exit code; with the directory already
\* there the creation step does nothing and never fails.
C7_WorkingDirectoryCreated ==
    \A c \in Calls :
        IsCode(c) =>
            /\ wdAtCall[c] => faultAt[c] # "makedirs"
            /\ (~wdAtCall[c] /\ IsRelative(codefile_name[c])) =>
                /\ pc[c] \in {"open", "write", "close", "launch", "wait"} => wdExists
                /\ openedAt[c] > 0
                    => "makedirs" \in {steps[c][i] : i \in 1..Len(steps[c])}
                /\ Returned(c) =>
                    /\ ret[c].result = "Error occurred"
                        => ret[c].error # <<"FileNotFoundError">>
                    /\ faultAt[c] = "none" =>
                        /\ Observed(c)
                        /\ ret[c].result = IF result[c].rc = 0
                                           THEN "Code executed successfully"
                                           ELSE "Failed to execute"

\* C7 witness: a call with the default name that began without the working
\* directory ended in success, and the directory now exists.
C7_Witness ==
    \E c \in Calls :
        /\ IsCode(c) /\ ~wdAtCall[c] /\ codefile_name[c] = DefaultName
        /\ Returned(c) /\ ret[c].result = "Code executed successfully"
        /\ wdExists

\* C8: a logger call that fails never changes what is returned: two Run
\* Source calls with the same arguments whose children were observed to end
\* the same way return results with the same outcome, whether or not a
\* logger call failed in one of them.
C8_LoggerNeverChangesResult ==
    \A c, d \in Calls :
        ( /\ IsCode(c) /\ IsCode(d) /\ Returned(c) /\ Returned(d)
          /\ input_code[c] = input_code[d] /\ codefile_name[c] = codefile_name[d]
          /\ Observed(c) /\ result[c] = result[d]
          /\ ~logFailed[d] )
        => ret[c].result = ret[d].result

\* C9 as stated: two Run Source calls with the same target name have both
\* ended and both wrote their text; the file holds exactly the text of the
\* call whose write reached it last.
C9_LastWriterWins ==
    \A c, d \in Calls :
        ( /\ c # d /\ IsCode(c) /\ IsCode(d) /\ Finished(c) /\ Finished(d)
          /\ codefile_name[c] = codefile_name[d]
          /\ code_file_path[c] # NoPath
          /\ flushedAt[d] > 0
          /\ flushedAt[c] > flushedAt[d]
          /\ Undisturbed(c, code_file_path[c]) )
        => files[code_file_path[c]] = input_code[c]

\* C9 amended: two Run Source calls that resolve to the same path have both
\* ended; if the file was not opened again (nor removed) after the later of
\* the writes, the file begins with the text of the call whose write reached
\* it last, and is exactly that text when that call opened the file after
\* the other call's write or its text is at least as long as the other's.
C9_LastWriterPrefix ==
    \A c, d \in Calls :
        ( /\ c # d /\ IsCode(c) /\ IsCode(d) /\ Finished(c) /\ Finished(d)
          /\ code_file_path[c] # NoPath /\ code_file_path[c] = code_file_path[d]
          /\ flushedAt[c] > flushedAt[d]
          /\ Undisturbed(c, code_file_path[c]) )
        => LET path == code_file_path[c] IN
            /\ IsPrefix(input_code[c], files[path])
            /\ (\/ openedAt[c] > flushedAt[d]
                \/ Len(input_code[d]) <= Len(input_code[c]))
                => files[path] = input_code[c]

\* C9 witness: both calls ended, the shorter text was written last, between
\* the other call's open and write, and the file holds it followed by the
\* tail of the longer text.
C9_Witness ==
    \E c, d \in Calls :
        /\ c # d /\ IsCode(c) /\ IsCode(d) /\ Finished(c) /\ Finished(d)
        /\ code_file_path[c] # NoPath /\ code_file_path[c] = code_file_path[d]
        /\ flushedAt[d] > 0
        /\ flushedAt[c] > flushedAt[d]
        /\ Undisturbed(c, code_file_path[c])
        /\ files[code_file_path[c]] # input_code[c]
        /\ IsPrefix(input_code[c], files[code_file_path[c]])

StepOrder == <<"makedirs", "resolve", "open", "write", "close", "launch", "exit">>

\* C10: the steps of a Run Source call happen in the order directory, path,
\* open, write, close, launch, exit; a child is started only after the text
\* has reached the file and the file is closed; the file is closed however
\* the call ends, a failed write included; and no child is started when the
\* directory, the path or the write fails.
C10_WriteCloseThenLaunch ==
    \A c \in Calls :
        IsCode(c) =>
            /\ IsPrefix(steps[c], StepOrder)
            /\ launches[c] > 0 =>
                /\ ~code_file[c].open
                /\ code_file[c].pending = <<>>
                /\ flushedAt[c]
                     > openedAt[c]
                /\ openedAt[c] > 0
            /\ pc[c] = "launch" => ~code_file[c].open
            /\ Finished(c) => ~code_file[c].open
            /\ faultAt[c] \in {"makedirs", "resolve", "open", "write", "close"}
                => launches[c] = 0 /\ result[c] = NoProc

\* C10 witness: one call's write raised and its file is closed with no child
\* started, while another call started its child after writing and closing.
C10_Witness ==
    \E c, d \in Calls :
        /\ IsCode(c) /\ Finished(c) /\ faultAt[c] = "write"
        /\ ~code_file[c].open /\ launches[c] = 0
        /\ IsCode(d) /\ launches[d] = 1 /\ ~code_file[d].open

====
